---- MODULE Spec2Model ----
(***************************************************************************)
(* stunner: the SOCKS5 front-end that tunnels TCP sessions through a TURN  *)
(* TCP allocation (internal/socksimplementations/socksturntcphandler.go)   *)
(* and the UDP scanner that probes SNMP and DNS through a channel-bound    *)
(* TURN allocation (internal/cmd/udpscanner.go).                           *)
(*                                                                         *)
(* One run of the program executes one subcommand (cmd).  The SOCKS        *)
(* sessions share one SocksTurnTCPHandler value, as the proxy holds a      *)
(* single handler; the scanner is one sequential loop.                     *)
(*                                                                         *)
(* ev is the observable output of the last step: the value a hook          *)
(* returned, the request it wrote on a connection, whether it logged at    *)
(* Error.  Every action overwrites it.                                     *)
(*                                                                         *)
(* Spec is the whole program.  PreHandlerSpec, RefreshSpec and ScanSpec    *)
(* are Spec with the environment restricted (to requests arriving, to      *)
(* sessions before their streams end, to the scanner): every behaviour of  *)
(* theirs is a behaviour of Spec.                                          *)
(***************************************************************************)
EXTENDS Integers, Sequences, FiniteSets, TLC

\* ------------------------------------------------------------------ bounds
\* Number of SOCKS sessions served concurrently through the one handler.
NumSessions == 2

Sessions == 1..NumSessions

\* ------------------------------------------------------------- SOCKS input
\* netip addresses as byte slices, the way socks.Request.DestinationAddress
\* carries them.
PrivateV4 == <<10, 0, 0, 1>>
PublicV4 == <<93, 184, 216, 34>>
PublicV6 == <<32, 1, 13, 184, 0, 0, 0, 0, 0, 0, 0, 0, 0, 0, 0, 1>>
ShortSlice == <<10, 0>>

\* DestinationAddress of a request with an IP address type.
AddrLiterals == {PrivateV4, PublicV4, PublicV6, ShortSlice}

\* DestinationAddress of a request with the hostname address type ("www").
HostName == <<119, 119, 119>>

\* What helper.ResolveName can answer for a hostname: an error, or a list.
NoNames == [err |-> FALSE, list |-> <<>>]
ResolverAnswers ==
    [err : {FALSE},
     list : {<<>>, <<PrivateV4>>, <<PublicV4>>, <<PrivateV4, PublicV4>>,
             <<PublicV4, PrivateV4>>}]
    \cup {[err |-> TRUE, list |-> <<>>]}

\* socks.Request as PreHandler reads it, with the resolver's answer for it.
Requests ==
    [AddressType : {"IPv4", "IPv6"}, DestinationAddress : AddrLiterals, names : {NoNames}]
    \cup [AddressType : {"Domainname"}, DestinationAddress : {HostName},
          names : ResolverAnswers]
    \cup [AddressType : {"Other"}, DestinationAddress : {PrivateV4}, names : {NoNames}]

\* Outcome of internal.SetupTurnTCPConnection.
SetupResults == {"ok", "err"}

\* Realm and nonce strings a TURN server supplies in an error response.
Realms == {"realm1"}
Nonces == {"nonce1", "nonce2"}
ErrorCodes == {"438", "403"}

\* ----------------------------------------------------------- scanner input
\* Number of items the IP iterator yields in one scan, at most.
MaxItems == 2

\* Ports UDPScanner passes to the two probes.
SnmpPort == 161
DnsPort == 53

\* A string of n bytes ("xx...x").
Bytes(n) == [i \in 1..n |-> 120]

\* UDPScannerOpts; strings the code inspects are sequences of characters
\* or bytes.  Log is "nil" or a logger.  The community strings are "",
\* "pub" and strings of 128 and 256 bytes; the domain names are "", "a.b"
\* and names whose first label has 64 and 256 bytes.
OptsSpace ==
    [TurnServer : {<<>>, <<"t">>, <<"t", ":", "1">>},
     Protocol : {"tcp", "udp", "sctp"},
     Username : {<<>>, <<"u">>},
     Password : {<<>>, <<"p">>},
     Log : {"nil", "logger"},
     CommunityString : {<<>>, <<112, 117, 98>>, Bytes(128), Bytes(256)},
     DomainName : {<<>>, <<97, 46, 98>>, Bytes(64) \o <<46, 98>>,
                   Bytes(256) \o <<46, 98>>},
     IPs : {<<>>, <<"10.0.0.1">>}]

\* Options no subcommand but the scanner reads.
NoOpts ==
    [TurnServer |-> <<>>, Protocol |-> "", Username |-> <<>>, Password |-> <<>>,
     Log |-> "nil", CommunityString |-> <<>>, DomainName |-> <<>>, IPs |-> <<>>]

\* What the iterator's channel delivers: an address, or an iteration error.
Items == {[Error |-> FALSE, IP |-> PrivateV4], [Error |-> TRUE, IP |-> <<>>]}
NoItem == [Error |-> FALSE, IP |-> <<>>]

\* Streams of at most n items.
RECURSIVE Streams(_)
Streams(n) ==
    IF n = 0 THEN {<<>>}
    ELSE LET shorter == Streams(n - 1) IN
         shorter \cup {Append(st, it) : st \in {x \in shorter : Len(x) = n - 1}, it \in Items}

\* Channel numbers helper.RandomChannelNumber can draw (0x4000 and 0x7FFF).
ChannelNumbers == {<<64, 0>>, <<127, 255>>}

NoAddr == <<>>
NoEvent == [act |-> "none"]
NoResponse == [class |-> "none"]

VARIABLES
    cmd,                    \* the subcommand this run executes
    DropNonPrivateRequests, \* SocksTurnTCPHandler.DropNonPrivateRequests
    ControlConnection,      \* SocksTurnTCPHandler.ControlConnection (0 = nil)
    connState,              \* control connection opened by session s: none/open/closed
    sessPc,                 \* where the proxy is with session s: new/failed/
                            \* established/running/dataclosed/closed
    cancelled,              \* ctx.Done() of session s is closed
    refreshPc,              \* position of the Refresh goroutine of session s
    tickPending,            \* a tick waits in tick.C of session s
    response,               \* the error response Refresh of session s is handling
    r2c,                    \* CopyFromRemoteToClient of session s
    c2r,                    \* CopyFromClientToRemote of session s
    opts,                   \* the UDPScannerOpts UDPScanner is called with
    scanPc,                 \* position of UDPScanner: start/range/snmp/dns/returned
    probePc,                \* position inside snmpScan or dnsScan
    stream,                 \* what ipChan still has to deliver
    scanIdx,                \* number of items received from ipChan
    cur,                    \* the item in hand and the probes started for it
    remote,                 \* the probe's TURN connection: none/open/closed
    channelNumber,          \* the probe's channel number
    buf,                    \* the frame the probe built for its write
    calls,                  \* the calls the probe in hand made on its connection
    nOpen,                  \* TURN connections of the scanner that are open
    ev                      \* observable output of the last step

socksVars ==
    <<DropNonPrivateRequests, ControlConnection, connState, sessPc, cancelled,
      refreshPc, tickPending, response, r2c, c2r>>

scanVars ==
    <<opts, scanPc, probePc, stream, scanIdx, cur, remote, channelNumber, buf,
      calls, nOpen>>

vars == <<cmd, socksVars, scanVars, ev>>

\* --------------------------------------------------------------- PreHandler

\* netip.AddrFromSlice: a 4-byte or a 16-byte slice is an address.
AddrFromSlice(slice) ==
    IF Len(slice) \in {4, 16}
    THEN [ok |-> TRUE, addr |-> slice]
    ELSE [ok |-> FALSE, addr |-> NoAddr]

\* helper.IsPrivateIP: membership in the private-ranges set
\* (10.0.0.0/8, 172.16.0.0/12, 192.168.0.0/16).
IsPrivateIP(addr) ==
    /\ Len(addr) = 4
    /\ \/ addr[1] = 10
       \/ addr[1] = 172 /\ addr[2] \in 16..31
       \/ addr[1] = 192 /\ addr[2] = 168

\* ResolveTarget taking the last entry of the resolver's answer.
ResolveTargetLastName(request) ==
    CASE request.AddressType \in {"IPv4", "IPv6"} ->
            LET tmp == AddrFromSlice(request.DestinationAddress) IN
            IF ~tmp.ok
            THEN [reason |-> "AddressTypeNotSupported", target |-> NoAddr]
            ELSE [reason |-> "", target |-> tmp.addr]
      [] request.AddressType = "Domainname" ->
            LET names == request.names IN
            IF names.err
            THEN [reason |-> "HostUnreachable", target |-> NoAddr]
            ELSE IF Len(names.list) = 0
            THEN [reason |-> "HostUnreachable", target |-> NoAddr]
            ELSE [reason |-> "", target |-> names.list[Len(names.list)]]
      [] OTHER -> [reason |-> "AddressTypeNotSupported", target |-> NoAddr]

\* Lines 36-54: the switch on request.AddressType.
ResolveTarget(request) ==
    CASE request.AddressType \in {"IPv4", "IPv6"} ->
            LET tmp == AddrFromSlice(request.DestinationAddress) IN
            IF ~tmp.ok
            THEN [reason |-> "AddressTypeNotSupported", target |-> NoAddr]
            ELSE [reason |-> "", target |-> tmp.addr]
      [] request.AddressType = "Domainname" ->
            LET names == request.names IN
            IF names.err
            THEN [reason |-> "HostUnreachable", target |-> NoAddr]
            ELSE IF Len(names.list) = 0
            THEN [reason |-> "HostUnreachable", target |-> NoAddr]
            ELSE [reason |-> "", target |-> names.list[1]]
      [] OTHER -> [reason |-> "AddressTypeNotSupported", target |-> NoAddr]

\* PreHandlerResult without the check of lines 56-59.
PreHandlerResultNoDrop(request, drop, setupResult) ==
    LET r == ResolveTarget(request) IN
    IF r.reason # ""
    THEN [reason |-> r.reason, target |-> NoAddr, setup |-> FALSE, data |-> FALSE]
    ELSE IF setupResult = "err"
    THEN [reason |-> "HostUnreachable", target |-> r.target, setup |-> TRUE, data |-> FALSE]
    ELSE [reason |-> "", target |-> r.target, setup |-> TRUE, data |-> TRUE]

\* PreHandlerResult reporting a failed TURN setup as GeneralFailure.
PreHandlerResultSetupGeneral(request, drop, setupResult) ==
    LET r == ResolveTarget(request) IN
    IF r.reason # ""
    THEN [reason |-> r.reason, target |-> NoAddr, setup |-> FALSE, data |-> FALSE]
    ELSE IF drop /\ ~IsPrivateIP(r.target)
    THEN [reason |-> "HostUnreachable", target |-> r.target, setup |-> FALSE, data |-> FALSE]
    ELSE IF setupResult = "err"
    THEN [reason |-> "GeneralFailure", target |-> r.target, setup |-> TRUE, data |-> FALSE]
    ELSE [reason |-> "", target |-> r.target, setup |-> TRUE, data |-> TRUE]

\* Lines 33-69: what PreHandler returns for a request, given the handler's
\* DropNonPrivateRequests and the outcome of SetupTurnTCPConnection if it is
\* called.  reason "" is a nil *socks.Error; data says a data connection is
\* returned; setup says SetupTurnTCPConnection was called (with target).
PreHandlerResult(request, drop, setupResult) ==
    LET r == ResolveTarget(request) IN
    IF r.reason # ""
    THEN [reason |-> r.reason, target |-> NoAddr, setup |-> FALSE, data |-> FALSE]
    ELSE IF drop /\ ~IsPrivateIP(r.target)
    THEN [reason |-> "HostUnreachable", target |-> r.target, setup |-> FALSE, data |-> FALSE]
    ELSE IF setupResult = "err"
    THEN [reason |-> "HostUnreachable", target |-> r.target, setup |-> TRUE, data |-> FALSE]
    ELSE [reason |-> "", target |-> r.target, setup |-> TRUE, data |-> TRUE]

\* PreHandler of session s: on success the control connection it opened is
\* stored in the handler's single ControlConnection field.
PreHandler(s) ==
    /\ cmd = "socks"
    /\ sessPc[s] = "new"
    /\ \E request \in Requests, setupResult \in SetupResults :
          LET res == PreHandlerResult(request, DropNonPrivateRequests, setupResult) IN
          /\ ev' = [act |-> "PreHandler", sess |-> s, request |-> request,
                    setupResult |-> setupResult, result |-> res]
          /\ IF res.data
             THEN /\ ControlConnection' = s
                  /\ connState' = [connState EXCEPT ![s] = "open"]
                  /\ sessPc' = [sessPc EXCEPT ![s] = "established"]
             ELSE /\ sessPc' = [sessPc EXCEPT ![s] = "failed"]
                  /\ UNCHANGED <<ControlConnection, connState>>
    /\ UNCHANGED scanVars
    /\ UNCHANGED <<cmd, DropNonPrivateRequests, cancelled, refreshPc, tickPending,
                   response, r2c, c2r>>

\* The proxy reports success to the client and starts the three tasks of the
\* session: Refresh (which creates its ticker) and the two copies.
Serve(s) ==
    /\ cmd = "socks"
    /\ sessPc[s] = "established"
    /\ sessPc' = [sessPc EXCEPT ![s] = "running"]
    /\ refreshPc' = [refreshPc EXCEPT ![s] = "select"]
    /\ r2c' = [r2c EXCEPT ![s] = "copying"]
    /\ c2r' = [c2r EXCEPT ![s] = "copying"]
    /\ ev' = [act |-> "Serve"]
    /\ UNCHANGED scanVars
    /\ UNCHANGED <<cmd, DropNonPrivateRequests, ControlConnection, connState,
                   cancelled, tickPending, response>>

\* The session's cancellation signal is tripped.
Cancel(s) ==
    /\ cmd = "socks"
    /\ sessPc[s] = "running"
    /\ ~cancelled[s]
    /\ cancelled' = [cancelled EXCEPT ![s] = TRUE]
    /\ ev' = [act |-> "Cancel"]
    /\ UNCHANGED scanVars
    /\ UNCHANGED <<cmd, DropNonPrivateRequests, ControlConnection, connState,
                   sessPc, refreshPc, tickPending, response, r2c, c2r>>

\* ------------------------------------------------------------------ Refresh

\* internal.RefreshRequest(username, password, nonce, realm): the fields of
\* the request that vary.
RefreshRequest(nonce, realm) == [method |-> "Refresh", nonce |-> nonce, realm |-> realm]

\* What refresh.SendAndReceive can return on connection conn: an error, or
\* (only from an open connection) a success or an error-class response.
Exchanges(conn) ==
    {[class |-> "err"]}
    \cup (IF conn # 0 /\ connState[conn] = "open"
          THEN {[class |-> "success"]}
               \cup [class : {"error"}, code : ErrorCodes, realm : Realms, nonce : Nonces]
          ELSE {})

\* Line 75, two minutes later: the ticker of session s puts a tick in tick.C
\* (capacity 1).  The ticker is a local of Refresh: once Refresh has returned
\* nothing reads tick.C again.
Tick(s) ==
    /\ cmd = "socks"
    /\ refreshPc[s] = "select"
    /\ ~tickPending[s]
    /\ tickPending' = [tickPending EXCEPT ![s] = TRUE]
    /\ ev' = [act |-> "Tick"]
    /\ UNCHANGED scanVars
    /\ UNCHANGED <<cmd, DropNonPrivateRequests, ControlConnection, connState,
                   sessPc, cancelled, refreshPc, response, r2c, c2r>>

\* Lines 76-78: the select takes <-ctx.Done() and Refresh returns.
RefreshDone(s) ==
    /\ cmd = "socks"
    /\ refreshPc[s] = "select"
    /\ cancelled[s]
    /\ refreshPc' = [refreshPc EXCEPT ![s] = "done"]
    /\ ev' = [act |-> "RefreshDone"]
    /\ UNCHANGED scanVars
    /\ UNCHANGED <<cmd, DropNonPrivateRequests, ControlConnection, connState,
                   sessPc, cancelled, tickPending, response, r2c, c2r>>

\* Where Refresh goes after its first exchange (lines 83-88): it returns,
\* unless the response is of the error class, which it handles next.
AfterFirstExchange(x) == IF x.class = "error" THEN "retry" ELSE "done"

\* Lines 79-88: the select takes the tick; the first request is built with
\* the empty nonce and realm of lines 73-74 and exchanged on whatever
\* connection the handler's ControlConnection field holds now.
RefreshTick(s) ==
    /\ cmd = "socks"
    /\ refreshPc[s] = "select"
    /\ tickPending[s]
    /\ tickPending' = [tickPending EXCEPT ![s] = FALSE]
    /\ \E x \in Exchanges(ControlConnection) :
          /\ refreshPc' = [refreshPc EXCEPT ![s] = AfterFirstExchange(x)]
          /\ response' = [response EXCEPT ![s] = IF x.class = "error" THEN x ELSE NoResponse]
          /\ ev' = [act |-> "Refresh", sess |-> s, n |-> 1,
                    conn |-> ControlConnection,
                    request |-> RefreshRequest("", ""),
                    got |-> x, logged |-> (x.class = "err")]
    /\ UNCHANGED scanVars
    /\ UNCHANGED <<cmd, DropNonPrivateRequests, ControlConnection, connState,
                   sessPc, cancelled, r2c, c2r>>

\* RetryRequest reading the nonce and realm of lines 73-74 instead of the
\* ones lines 89-90 declare.
RetryRequestOuterVars(resp) == RefreshRequest("", "")

\* Lines 89-91: the request re-issued after an error-class response.
RetryRequest(resp) ==
    LET realm == resp.realm
        nonce == resp.nonce
    IN RefreshRequest(nonce, realm)

\* Lines 89-101: the re-issued request and its outcome; Refresh returns
\* whatever the outcome is.
RefreshRetry(s) ==
    /\ cmd = "socks"
    /\ refreshPc[s] = "retry"
    /\ \E x \in Exchanges(ControlConnection) :
          /\ refreshPc' = [refreshPc EXCEPT ![s] = "done"]
          /\ response' = [response EXCEPT ![s] = NoResponse]
          /\ ev' = [act |-> "Refresh", sess |-> s, n |-> 2,
                    conn |-> ControlConnection, after |-> response[s],
                    request |-> RetryRequest(response[s]),
                    got |-> [class |-> x.class],
                    logged |-> (x.class \in {"err", "error"})]
    /\ UNCHANGED scanVars
    /\ UNCHANGED <<cmd, DropNonPrivateRequests, ControlConnection, connState,
                   sessPc, cancelled, tickPending, r2c, c2r>>

\* ------------------------------------------------------------------- copies

\* Lines 106-113: io.Copy(client, remote) returns when a read of remote
\* reports EOF or an error; ctx is not consulted.
CopyFromRemoteToClient(s) ==
    /\ cmd = "socks"
    /\ r2c[s] = "copying"
    /\ r2c' = [r2c EXCEPT ![s] = "done"]
    /\ ev' = [act |-> "CopyFromRemoteToClient"]
    /\ UNCHANGED scanVars
    /\ UNCHANGED <<cmd, DropNonPrivateRequests, ControlConnection, connState,
                   sessPc, cancelled, refreshPc, tickPending, response, c2r>>

\* Lines 116-123: io.Copy(remote, client), likewise.
CopyFromClientToRemote(s) ==
    /\ cmd = "socks"
    /\ c2r[s] = "copying"
    /\ c2r' = [c2r EXCEPT ![s] = "done"]
    /\ ev' = [act |-> "CopyFromClientToRemote"]
    /\ UNCHANGED scanVars
    /\ UNCHANGED <<cmd, DropNonPrivateRequests, ControlConnection, connState,
                   sessPc, cancelled, refreshPc, tickPending, response, r2c>>

\* ------------------------------------------------------------------ Cleanup

\* The data connection PreHandler returned for session s (line 68) is open
\* from PreHandler's success until the proxy closes it.
dataConnectionOpen(s) == sessPc[s] \in {"established", "running"}

\* The teardown of session s begins: the proxy closes the data connection
\* PreHandler returned; the close may fail.
CloseData(s) ==
    /\ cmd = "socks"
    /\ sessPc[s] = "running"
    /\ cancelled[s]
    /\ sessPc' = [sessPc EXCEPT ![s] = "dataclosed"]
    /\ \E err \in BOOLEAN : ev' = [act |-> "CloseData", sess |-> s, err |-> err]
    /\ UNCHANGED scanVars
    /\ UNCHANGED <<cmd, DropNonPrivateRequests, ControlConnection, connState,
                   cancelled, refreshPc, tickPending, response, r2c, c2r>>

\* Lines 126-131, called at the teardown of session s after the close of its
\* data connection: closes the connection the handler's ControlConnection
\* field holds; Close of a closed connection returns an error.
Cleanup(s) ==
    /\ cmd = "socks"
    /\ sessPc[s] = "dataclosed"
    /\ sessPc' = [sessPc EXCEPT ![s] = "closed"]
    /\ IF ControlConnection # 0
       THEN /\ connState' = [connState EXCEPT ![ControlConnection] = "closed"]
            /\ ev' = [act |-> "Cleanup", sess |-> s, conn |-> ControlConnection,
                      err |-> (connState[ControlConnection] = "closed")]
       ELSE /\ UNCHANGED connState
            /\ ev' = [act |-> "Cleanup", sess |-> s, conn |-> 0, err |-> FALSE]
    /\ UNCHANGED scanVars
    /\ UNCHANGED <<cmd, DropNonPrivateRequests, ControlConnection, cancelled,
                   refreshPc, tickPending, response, r2c, c2r>>

\* ------------------------------------------------------------------ scanner

\* strings.Contains(str, ch) for a one-character ch.
Contains(str, ch) == \E i \in 1..Len(str) : str[i] = ch

\* Validate without the check of lines 49-51.
ValidateNoCommunity(o) ==
    IF o.TurnServer = <<>> THEN "need a valid turnserver"
    ELSE IF ~Contains(o.TurnServer, ":") THEN "turnserver needs a port"
    ELSE IF o.Protocol # "tcp" /\ o.Protocol # "udp"
    THEN "protocol needs to be either tcp or udp"
    ELSE IF o.Username = <<>> THEN "please supply a username"
    ELSE IF o.Password = <<>> THEN "please supply a password"
    ELSE IF o.Log = "nil" THEN "please supply a valid logger"
    ELSE IF o.DomainName = <<>> THEN "please supply a valid domain name"
    ELSE "nil"

\* Lines 30-58: UDPScannerOpts.Validate, "nil" or the error's message.
Validate(o) ==
    IF o.TurnServer = <<>> THEN "need a valid turnserver"
    ELSE IF ~Contains(o.TurnServer, ":") THEN "turnserver needs a port"
    ELSE IF o.Protocol # "tcp" /\ o.Protocol # "udp"
    THEN "protocol needs to be either tcp or udp"
    ELSE IF o.Username = <<>> THEN "please supply a username"
    ELSE IF o.Password = <<>> THEN "please supply a password"
    ELSE IF o.Log = "nil" THEN "please supply a valid logger"
    ELSE IF o.CommunityString = <<>> THEN "please supply a valid community string"
    ELSE IF o.DomainName = <<>> THEN "please supply a valid domain name"
    ELSE "nil"

\* Lines 60-70: UDPScanner validates the options and returns the error, or
\* creates the iterator.
UDPScannerStart ==
    /\ cmd = "udpscanner"
    /\ scanPc = "start"
    /\ LET err == Validate(opts) IN
       IF err # "nil"
       THEN /\ scanPc' = "returned"
            /\ ev' = [act |-> "UDPScanner", ret |-> err]
            /\ UNCHANGED stream
       ELSE /\ scanPc' = "range"
            /\ \E st \in Streams(MaxItems) : stream' = st
            /\ ev' = [act |-> "IPIterator"]
    /\ UNCHANGED <<opts, probePc, scanIdx, cur, remote, channelNumber, buf, calls, nOpen>>
    /\ UNCHANGED <<cmd, socksVars>>

\* Lines 72-77 and 86: the loop receives the next item; an iteration error
\* is logged and skipped; a closed channel ends the loop and UDPScanner
\* returns nil.
UDPScannerRange ==
    /\ cmd = "udpscanner"
    /\ scanPc = "range"
    /\ IF stream = <<>>
       THEN /\ scanPc' = "returned"
            /\ ev' = [act |-> "UDPScanner", ret |-> "nil"]
            /\ UNCHANGED <<stream, scanIdx, cur, probePc>>
       ELSE LET ip == Head(stream) IN
            /\ stream' = Tail(stream)
            /\ scanIdx' = scanIdx + 1
            /\ cur' = [item |-> ip, probes |-> <<>>]
            /\ IF ip.Error
               THEN /\ scanPc' = "range"
                    /\ ev' = [act |-> "skip", logged |-> TRUE]
                    /\ UNCHANGED probePc
               ELSE /\ scanPc' = "snmp"
                    /\ probePc' = "setup"
                    /\ ev' = [act |-> "scanning", logged |-> FALSE]
    /\ buf' = <<>>
    /\ calls' = <<>>
    /\ UNCHANGED <<opts, remote, channelNumber, nOpen>>
    /\ UNCHANGED <<cmd, socksVars>>

\* Port UDPScanner passes to a probe (lines 78 and 81).
ProbePort(p) == IF p = "snmp" THEN SnmpPort ELSE DnsPort

\* AfterProbe leaving the loop when a probe returns an error.
AfterProbeStopOnError(p, ret) ==
    IF ret = "err" THEN "returned" ELSE IF p = "snmp" THEN "dns" ELSE "range"

\* Lines 78-83: where the loop goes when a probe has returned ret; an error
\* is logged and the loop goes on.
AfterProbe(p, ret) == IF p = "snmp" THEN "dns" ELSE "range"

\* What snmpScan returns when a step ends it: "nil", or "err".  A step ends
\* the probe by failing, or by being the last one.
snmpScanReturn(step, outcome) ==
    CASE step = "setup" -> IF outcome = "timeout" THEN "nil" ELSE "err"
      [] step = "bind" -> "err"
      [] step = "write" -> "err"
      [] step = "read" -> IF outcome = "timeout" THEN "nil" ELSE "err"
      [] step = "extract" -> IF outcome = "ok" THEN "nil" ELSE "err"

\* What dnsScan returns when a step ends it.
dnsScanReturn(step, outcome) ==
    CASE step = "setup" -> IF outcome = "timeout" THEN "nil" ELSE "err"
      [] step = "bind" -> "err"
      [] step = "write" -> "err"
      [] step = "read" -> IF outcome = "timeout" THEN "nil" ELSE "err"
      [] step = "extract" -> IF outcome = "ok" THEN "nil" ELSE "err"

ProbeReturn(p, step, outcome) ==
    IF p = "snmp" THEN snmpScanReturn(step, outcome) ELSE dnsScanReturn(step, outcome)

\* ------------------------------------------------------------ probe bytes

\* Go's conversions of an int to uint8 and to uint16.
uint8(v) == v % 256
uint16(v) == v % 65536

\* helper.PutUint16: the two bytes of v, big-endian.
PutUint16(v) == <<(v \div 256) % 256, v % 256>>

\* helper.PutUint32: the four bytes of v, big-endian.  A uint32 is held as
\* its two 16-bit halves (hi, lo), the model checker's integers being 32-bit
\* signed.
PutUint32(v) == PutUint16(v.hi) \o PutUint16(v.lo)

\* uint16(v) of a uint32 v: its low half.
Low16(v) == v.lo

\* Values rand.Uint32() can return (0xDEADBEEF and 1).
RandomUint32s == {[hi |-> 57005, lo |-> 48879], [hi |-> 0, lo |-> 1]}

\* strings.Split(str, sep) for a one-byte sep.
RECURSIVE Split(_, _)
Split(str, sep) ==
    IF ~Contains(str, sep) THEN <<str>>
    ELSE LET i == CHOOSE k \in 1..Len(str) :
                     /\ str[k] = sep
                     /\ \A j \in 1..(k - 1) : str[j] # sep
         IN <<SubSeq(str, 1, i - 1)>> \o Split(SubSeq(str, i + 1, Len(str)), sep)

\* Lines 116-133: inner of snmpScan.
snmpInner(community, id) ==
    <<2, 1, 1, 4, uint8(Len(community))>> \o community \o <<161, 25, 2, 4>>
    \o PutUint32(id)
    \o <<2, 1, 0, 2, 1, 0, 48, 11, 48, 9, 6, 5, 43, 6, 1, 2, 1, 5, 0>>

\* Lines 115-139: snmp of snmpScan.
snmp(community, id) ==
    LET inner == snmpInner(community, id) IN
    <<48, uint8(Len(inner))>> \o inner

\* Lines 217-220: the loop over domainParts.
RECURSIVE domainLabels(_)
domainLabels(domainParts) ==
    IF domainParts = <<>> THEN <<>>
    ELSE LET x == Head(domainParts) IN
         <<uint8(Len(x))>> \o x \o domainLabels(Tail(domainParts))

\* Lines 215-226: domainBuf of dnsScan.
domainBuf(dnsName) ==
    domainLabels(Split(dnsName, 46)) \o <<0>> \o PutUint16(1) \o PutUint16(1)

\* Lines 199-228: dns of dnsScan.
dns(dnsName, id) ==
    PutUint16(Low16(id)) \o <<1, 0>> \o PutUint16(1) \o PutUint16(0)
    \o PutUint16(0) \o PutUint16(0) \o domainBuf(dnsName)

\* Lines 143-146 and 232-235: buf, the ChannelData frame around a payload.
ChannelData(channel, payload) ==
    channel \o PutUint16(uint16(Len(payload))) \o payload

\* The payload a probe builds from the options and a random number.
Payload(p, o, id) ==
    IF p = "snmp" THEN snmp(o.CommunityString, id) ELSE dns(o.DomainName, id)

\* ------------------------------------------------------------- probe steps

\* A call of the probe on its TURN connection, as calls records it: the
\* channel is the one a ChannelBind request binds, or the one a written
\* frame starts with.
Call(step, outcome) ==
    [op |-> step, outcome |-> outcome,
     channel |-> IF step = "bind" THEN channelNumber'
                 ELSE IF step = "write" THEN SubSeq(buf', 1, 2)
                 ELSE <<>>]

\* calls after the step: internal.SetupTurnConnection starts the probe's
\* record, internal.ExtractChannelData is no call on the connection.
Called(step, outcome) ==
    IF step = "setup" THEN <<Call(step, outcome)>>
    ELSE IF step = "extract" THEN calls
    ELSE Append(calls, Call(step, outcome))

\* DeferClose registered only once the ChannelBind exchange is over.
DeferCloseAfterBind(step) == step \notin {"setup", "bind"}

\* Lines 90-98 and 174-182: remote.Close() is deferred once the set-up has
\* succeeded, so it runs when the probe returns from any later step.
DeferClose(step) == step # "setup"

\* ChannelBind going on whatever the class of the response.
BindProceedsAnyClass(outcome) == outcome \in {"ok", "errorclass"}

\* Lines 102-113 and 186-197: the probe goes on after ChannelBind only if
\* the request was built, the exchange succeeded and the response is not
\* error-class.
BindProceeds(outcome) == outcome = "ok"

\* The probe p returns from its step with the given outcome: the deferred
\* remote.Close() runs if the connection was set up, and UDPScanner logs a
\* non-nil error at Error and goes on.
Return(p, step, outcome) ==
    LET ret == ProbeReturn(p, step, outcome) IN
    /\ remote' = IF DeferClose(step) THEN "closed" ELSE remote
    /\ nOpen' = IF DeferClose(step) THEN nOpen - 1 ELSE nOpen
    /\ calls' = IF DeferClose(step)
                THEN Append(Called(step, outcome),
                            [op |-> "close", outcome |-> "ok", channel |-> <<>>])
                ELSE Called(step, outcome)
    /\ scanPc' = AfterProbe(p, ret)
    /\ probePc' = IF AfterProbe(p, ret) = "dns" THEN "setup" ELSE "none"
    /\ ev' = [act |-> "probe", probe |-> p, step |-> step, outcome |-> outcome,
              ret |-> ret, logged |-> (ret # "nil"), channel |-> channelNumber']

\* The probe p goes on from its step, which had the given outcome, to its
\* next step.
Continue(p, step, outcome, next) ==
    /\ scanPc' = scanPc
    /\ probePc' = next
    /\ calls' = Called(step, outcome)
    /\ ev' = [act |-> "step", probe |-> p, step |-> step, outcome |-> outcome,
              channel |-> channelNumber']

\* Lines 90-98 and 174-182: internal.SetupTurnConnection toward (ip, port).
Setup(p) ==
    /\ cmd = "udpscanner"
    /\ scanPc = p
    /\ probePc = "setup"
    /\ cur' = [cur EXCEPT !.probes = Append(@, [probe |-> p, port |-> ProbePort(p)])]
    /\ channelNumber' = <<>>
    /\ buf' = <<>>
    /\ \E outcome \in {"ok", "timeout", "error"} :
          IF outcome = "ok"
          THEN /\ remote' = "open"
               /\ nOpen' = nOpen + 1
               /\ Continue(p, "setup", "ok", "bind")
          ELSE Return(p, "setup", outcome)
    /\ UNCHANGED <<opts, stream, scanIdx>>
    /\ UNCHANGED <<cmd, socksVars>>

\* Lines 100-113 and 184-197: a random channel number, the ChannelBind
\* request and its exchange on remote.
ChannelBind(p) ==
    /\ cmd = "udpscanner"
    /\ scanPc = p
    /\ probePc = "bind"
    /\ \E ch \in ChannelNumbers : channelNumber' = ch
    /\ UNCHANGED buf
    /\ \E outcome \in {"ok", "builderror", "timeout", "error", "errorclass"} :
          IF BindProceeds(outcome)
          THEN /\ Continue(p, "bind", outcome, "write")
               /\ UNCHANGED <<remote, nOpen>>
          ELSE Return(p, "bind", outcome)
    /\ UNCHANGED <<opts, stream, scanIdx, cur>>
    /\ UNCHANGED <<cmd, socksVars>>

\* Lines 115-151 and 199-240: the probe is built, framed with the channel
\* number and written to remote.
WriteProbe(p) ==
    /\ cmd = "udpscanner"
    /\ scanPc = p
    /\ probePc = "write"
    /\ UNCHANGED <<opts, stream, scanIdx, cur, channelNumber>>
    /\ \E id \in RandomUint32s : buf' = ChannelData(channelNumber, Payload(p, opts, id))
    /\ \E outcome \in {"ok", "timeout", "error"} :
          IF outcome = "ok"
          THEN /\ Continue(p, "write", "ok", "read")
               /\ UNCHANGED <<remote, nOpen>>
          ELSE Return(p, "write", outcome)
    /\ UNCHANGED <<cmd, socksVars>>

\* Lines 153-160 and 242-249: one read of remote.
ReadResponse(p) ==
    /\ cmd = "udpscanner"
    /\ scanPc = p
    /\ probePc = "read"
    /\ UNCHANGED <<opts, stream, scanIdx, cur, channelNumber, buf>>
    /\ \E outcome \in {"ok", "timeout", "error"} :
          IF outcome = "ok"
          THEN /\ Continue(p, "read", "ok", "extract")
               /\ UNCHANGED <<remote, nOpen>>
          ELSE Return(p, "read", outcome)
    /\ UNCHANGED <<cmd, socksVars>>

\* Lines 162-170 and 251-259: internal.ExtractChannelData, the Info lines,
\* return nil.
ExtractChannelData(p) ==
    /\ cmd = "udpscanner"
    /\ scanPc = p
    /\ probePc = "extract"
    /\ UNCHANGED <<opts, stream, scanIdx, cur, channelNumber, buf>>
    /\ \E outcome \in {"ok", "error"} : Return(p, "extract", outcome)
    /\ UNCHANGED <<cmd, socksVars>>

\* Lines 89-171.
snmpScan ==
    \/ Setup("snmp")
    \/ ChannelBind("snmp")
    \/ WriteProbe("snmp")
    \/ ReadResponse("snmp")
    \/ ExtractChannelData("snmp")

\* Lines 173-260.
dnsScan ==
    \/ Setup("dns")
    \/ ChannelBind("dns")
    \/ WriteProbe("dns")
    \/ ReadResponse("dns")
    \/ ExtractChannelData("dns")

\* Lines 60-87.
UDPScanner ==
    \/ UDPScannerStart
    \/ UDPScannerRange
    \/ snmpScan
    \/ dnsScan

\* ------------------------------------------------------------ specification

Init ==
    /\ cmd \in {"socks", "udpscanner"}
    /\ IF cmd = "socks"
       THEN /\ DropNonPrivateRequests \in BOOLEAN
            /\ opts = NoOpts
       ELSE /\ DropNonPrivateRequests = FALSE
            /\ opts \in OptsSpace
    /\ scanPc = "start"
    /\ probePc = "none"
    /\ stream = <<>>
    /\ scanIdx = 0
    /\ cur = [item |-> NoItem, probes |-> <<>>]
    /\ remote = "none"
    /\ channelNumber = <<>>
    /\ buf = <<>>
    /\ calls = <<>>
    /\ nOpen = 0
    /\ ControlConnection = 0
    /\ connState = [s \in Sessions |-> "none"]
    /\ sessPc = [s \in Sessions |-> "new"]
    /\ cancelled = [s \in Sessions |-> FALSE]
    /\ refreshPc = [s \in Sessions |-> "off"]
    /\ tickPending = [s \in Sessions |-> FALSE]
    /\ response = [s \in Sessions |-> NoResponse]
    /\ r2c = [s \in Sessions |-> "off"]
    /\ c2r = [s \in Sessions |-> "off"]
    /\ ev = NoEvent

SocksNext ==
    \E s \in Sessions :
        \/ PreHandler(s)
        \/ Serve(s)
        \/ Cancel(s)
        \/ Tick(s)
        \/ RefreshDone(s)
        \/ RefreshTick(s)
        \/ RefreshRetry(s)
        \/ CopyFromRemoteToClient(s)
        \/ CopyFromClientToRemote(s)
        \/ CloseData(s)
        \/ Cleanup(s)

Next == SocksNext \/ UDPScanner

Spec == Init /\ [][Next]_vars

\* The handler answering requests: PreHandler called for each session.
PreHandlerNext == \E s \in Sessions : PreHandler(s)

PreHandlerSpec == Init /\ [][PreHandlerNext]_vars

\* Sessions up to their teardown, whose copied streams have not ended:
\* everything but the copies returning and Cleanup.  (A connection Cleanup
\* has closed only takes outcomes away from an exchange.)
RefreshNext ==
    \E s \in Sessions :
        \/ PreHandler(s)
        \/ Serve(s)
        \/ Cancel(s)
        \/ Tick(s)
        \/ RefreshDone(s)
        \/ RefreshTick(s)
        \/ RefreshRetry(s)

RefreshSpec == Init /\ [][RefreshNext]_vars

\* The scanner subcommand alone.
ScanSpec == Init /\ [][UDPScanner]_vars

\* Refresh is one goroutine per session and every exchange carries a
\* deadline (s.Timeout), so each of its steps is taken once it can be; the
\* scanner is one sequential loop whose reads and writes carry deadlines.
\* Ticks, cancellation, the ends of the copied streams and the proxy's calls
\* are the environment's and carry no fairness.
FairSpec ==
    /\ Spec
    /\ \A s \in Sessions :
          /\ WF_vars(RefreshDone(s))
          /\ WF_vars(RefreshTick(s))
          /\ WF_vars(RefreshRetry(s))
    /\ WF_vars(UDPScanner)

\* ------------------------------------------------------------------- claims

\* The target a request designates: the IP literal, or the first entry of
\* the resolver's answer.
HasTarget(request) ==
    \/ /\ request.AddressType \in {"IPv4", "IPv6"}
       /\ Len(request.DestinationAddress) \in {4, 16}
    \/ /\ request.AddressType = "Domainname"
       /\ ~request.names.err
       /\ request.names.list # <<>>

TargetOf(request) ==
    IF request.AddressType = "Domainname"
    THEN Head(request.names.list)
    ELSE request.DestinationAddress

\* C1: with DropNonPrivateRequests enabled, a request whose resolved target
\* is outside the private ranges is answered HostUnreachable, with no data
\* connection, and SetupTurnTCPConnection is not called for it.
C1_DropNonPrivate ==
    (/\ ev.act = "PreHandler"
     /\ DropNonPrivateRequests
     /\ HasTarget(ev.request)
     /\ ~IsPrivateIP(TargetOf(ev.request)))
    => /\ ev.result.reason = "HostUnreachable"
       /\ ~ev.result.data
       /\ ~ev.result.setup
       /\ sessPc[ev.sess] = "failed"
       /\ connState[ev.sess] = "none"

C1_Witness ==
    /\ ev.act = "PreHandler"
    /\ DropNonPrivateRequests
    /\ ev.request.AddressType = "Domainname"
    /\ ev.request.names.list = <<PublicV4, PrivateV4>>
    /\ ev.setupResult = "ok"
    /\ ev.result.reason = "HostUnreachable"

\* C2: while a tunnel lives (not cancelled, both copies running) the Refresh
\* task keeps serving ticks: after a Refresh exchange that succeeded it is
\* back waiting for the next tick.
C2_RefreshRepeats ==
    \A s \in Sessions :
        (/\ ev.act = "Refresh"
         /\ ev.sess = s
         /\ ev.got.class = "success"
         /\ ~cancelled[s]
         /\ r2c[s] = "copying"
         /\ c2r[s] = "copying")
        => refreshPc[s] = "select"

\* C3: a Refresh answered with a 438 error is re-issued, the re-issued
\* request carries the realm and the nonce of that response, Refresh ends
\* with it whatever the answer (an error answer is logged), and a Refresh
\* that has ended sends nothing more.
C3_StaleNonceRetry ==
    [][\A s \in Sessions :
          /\ (/\ refreshPc[s] = "select"
              /\ ev'.act = "Refresh"
              /\ ev'.sess = s
              /\ ev'.got.class = "error"
              /\ ev'.got.code = "438")
             => /\ refreshPc'[s] = "retry"
                /\ response'[s] = ev'.got
          /\ (/\ refreshPc[s] = "retry"
              /\ response[s].code = "438"
              /\ refreshPc'[s] # "retry")
             => /\ ev'.act = "Refresh"
                /\ ev'.sess = s
                /\ ev'.n = 2
                /\ ev'.request.realm = response[s].realm
                /\ ev'.request.nonce = response[s].nonce
                /\ refreshPc'[s] = "done"
                /\ (ev'.got.class \in {"err", "error"} => ev'.logged)
          /\ refreshPc[s] = "done"
             => /\ refreshPc'[s] = "done"
                /\ ~(ev'.act = "Refresh" /\ ev'.sess = s)
      ]_vars

C3_Witness ==
    /\ ev.act = "Refresh"
    /\ ev.n = 2
    /\ ev.after.code = "438"
    /\ ev.after.nonce = "nonce2"
    /\ ev.request.nonce = "nonce2"
    /\ ev.got.class = "error"
    /\ ev.logged
    /\ refreshPc[ev.sess] = "done"

\* C4: Refresh and Cleanup of a session act on the control connection that
\* session's PreHandler opened, and once every session that opened one has
\* run Cleanup no control connection is left open.
C4_SessionIsolation ==
    /\ ev.act \in {"Refresh", "Cleanup"} => ev.conn = ev.sess
    /\ (\A s \in Sessions : sessPc[s] \in {"new", "failed", "closed"})
       => \A s \in Sessions : connState[s] # "open"

\* C5: the target PreHandler works with is the literal of an IPv4/IPv6
\* request and the first resolver entry of a hostname request; any other
\* address type is answered AddressTypeNotSupported without a TURN setup.
C5_TargetResolution ==
    ev.act = "PreHandler" =>
       /\ HasTarget(ev.request)
          => /\ ev.result.target = TargetOf(ev.request)
             /\ ev.result.reason \in {"", "HostUnreachable"}
             /\ (~DropNonPrivateRequests \/ IsPrivateIP(TargetOf(ev.request)))
                => ev.result.setup
       /\ ev.request.AddressType \notin {"IPv4", "IPv6", "Domainname"}
          => /\ ev.result.reason = "AddressTypeNotSupported"
             /\ ~ev.result.setup
             /\ ~ev.result.data
             /\ connState[ev.sess] = "none"

C5_Witness ==
    /\ ev.act = "PreHandler"
    /\ ev.request.AddressType = "Domainname"
    /\ ev.request.names.list = <<PrivateV4, PublicV4>>
    /\ ev.result.target = PrivateV4
    /\ ev.result.setup
    /\ ev.result.data

\* C6: every item the iterator yields is either skipped without a probe (an
\* iteration error) or probed exactly once with SNMP on port 161 and then
\* exactly once with DNS on port 53, whatever the probes return, and
\* UDPScanner returns nil, and only once the iterator is exhausted.
C6_ScannerProgress ==
    (cmd = "udpscanner" /\ scanPc \notin {"start"} /\ ~(ev.act = "UDPScanner" /\ ev.ret # "nil"))
    => LET snmpRun == [probe |-> "snmp", port |-> 161]
           dnsRun == [probe |-> "dns", port |-> 53]
       IN
       /\ (scanPc \in {"range", "returned"} /\ scanIdx > 0)
          => IF cur.item.Error THEN cur.probes = <<>> ELSE cur.probes = <<snmpRun, dnsRun>>
       /\ scanPc = "snmp"
          => /\ ~cur.item.Error
             /\ cur.probes = IF probePc = "setup" THEN <<>> ELSE <<snmpRun>>
       /\ scanPc = "dns"
          => /\ ~cur.item.Error
             /\ cur.probes = IF probePc = "setup" THEN <<snmpRun>> ELSE <<snmpRun, dnsRun>>
       /\ scanPc = "returned"
          => /\ stream = <<>>
             /\ ev.act = "UDPScanner"
             /\ ev.ret = "nil"

C6_Witness ==
    /\ cmd = "udpscanner"
    /\ scanPc = "range"
    /\ scanIdx = 1
    /\ stream # <<>>
    /\ ev.act = "probe"
    /\ ev.probe = "dns"
    /\ ev.ret = "err"
    /\ Len(cur.probes) = 2

\* C7: a probe step that fails with a timeout makes the probe return nil,
\* so nothing is logged at Error for it.
C7_TimeoutsDropped ==
    (ev.act = "probe" /\ ev.outcome = "timeout")
    => /\ ev.ret = "nil"
       /\ ~ev.logged

\* C8: once a session is cancelled, its Refresh task and its two copy tasks
\* all terminate, whatever the peer and the client do.
C8_CancelTerminates ==
    \A s \in Sessions :
        cancelled[s] ~> (refreshPc[s] = "done" /\ r2c[s] = "done" /\ c2r[s] = "done")

\* Invalid options, as the claim lists them.
InvalidOpts(o) ==
    \/ o.TurnServer = <<>>
    \/ \A i \in DOMAIN o.TurnServer : o.TurnServer[i] # ":"
    \/ o.Protocol \notin {"tcp", "udp"}
    \/ o.Username = <<>>
    \/ o.Password = <<>>
    \/ o.CommunityString = <<>>
    \/ o.DomainName = <<>>
    \/ o.Log = "nil"

\* C9: with invalid options UDPScanner returns the validation error before
\* anything else: no iterator, no item, no connection, no probe; options
\* that are valid but for an empty IP list are accepted.
C9_ValidationFirst ==
    cmd = "udpscanner" =>
       /\ InvalidOpts(opts)
          => /\ scanPc \in {"start", "returned"}
             /\ stream = <<>>
             /\ scanIdx = 0
             /\ cur.probes = <<>>
             /\ remote = "none"
             /\ scanPc = "returned" => (ev.act = "UDPScanner" /\ ev.ret # "nil")
       /\ (~InvalidOpts(opts) /\ scanPc = "returned")
          => (ev.act = "UDPScanner" /\ ev.ret = "nil")

C9_Witness ==
    /\ cmd = "udpscanner"
    /\ opts.CommunityString = <<>>
    /\ ~InvalidOpts([opts EXCEPT !.CommunityString = <<112>>])
    /\ scanPc = "returned"
    /\ ev.ret = "please supply a valid community string"

\* The kinds of PreHandler failure the claim tells apart.
TurnFailure == ev.result.setup /\ ev.setupResult = "err"
UnsupportedAddress ==
    \/ ev.request.AddressType \notin {"IPv4", "IPv6", "Domainname"}
    \/ /\ ev.request.AddressType \in {"IPv4", "IPv6"}
       /\ Len(ev.request.DestinationAddress) \notin {4, 16}
DropRejection ==
    /\ DropNonPrivateRequests
    /\ HasTarget(ev.request)
    /\ ~IsPrivateIP(TargetOf(ev.request))
ResolverFailure ==
    /\ ev.request.AddressType = "Domainname"
    /\ (ev.request.names.err \/ ev.request.names.list = <<>>)

\* C10 as stated: a TURN failure is reported HostUnreachable, and a failure
\* that is neither a TURN failure, an unsupported address type nor a
\* drop-non-private rejection is reported GeneralFailure.
C10_ErrorMappingAsStated ==
    (ev.act = "PreHandler" /\ ev.result.reason # "") =>
       /\ TurnFailure => ev.result.reason = "HostUnreachable"
       /\ (~TurnFailure /\ ~UnsupportedAddress /\ ~DropRejection)
          => ev.result.reason = "GeneralFailure"

\* C10, amended: a TURN failure, a resolver error, an empty resolver answer
\* and a drop-non-private rejection are reported HostUnreachable, an
\* unsupported address type (or a slice that is no address)
\* AddressTypeNotSupported; PreHandler never reports GeneralFailure, and it
\* fails in no other case.
C10_ErrorMapping ==
    ev.act = "PreHandler" =>
       /\ ev.result.reason # "GeneralFailure"
       /\ ev.result.reason # ""
          => /\ TurnFailure => ev.result.reason = "HostUnreachable"
             /\ ResolverFailure => ev.result.reason = "HostUnreachable"
             /\ DropRejection => ev.result.reason = "HostUnreachable"
             /\ UnsupportedAddress => ev.result.reason = "AddressTypeNotSupported"
             /\ TurnFailure \/ ResolverFailure \/ DropRejection \/ UnsupportedAddress
       /\ (TurnFailure \/ ResolverFailure \/ DropRejection \/ UnsupportedAddress)
          => ev.result.reason # ""

C10_Witness ==
    /\ ev.act = "PreHandler"
    /\ ev.request.AddressType = "Domainname"
    /\ ev.request.names.err
    /\ ev.result.reason = "HostUnreachable"
    /\ ~ev.result.setup

\* C11: in the teardown of a session the data connection is closed first
\* and the control connection afterwards: the control connection a session's
\* PreHandler opened is never closed while the data connection of that
\* session is still open.
C11_DataClosedFirst ==
    \A s \in Sessions : connState[s] = "closed" => ~dataConnectionOpen(s)

\* The last step wrote (or tried to write) the frame buf of probe p.
Wrote(p) == ev.act \in {"step", "probe"} /\ ev.step = "write" /\ ev.probe = p

\* The labels of the domain name the scanner is run with.
Labels == Split(opts.DomainName, 46)

\* The community string is longer than 127 bytes, or a label of the domain
\* name is longer than 63 bytes.
OverLong ==
    \/ Len(opts.CommunityString) > 127
    \/ \E i \in 1..Len(Labels) : Len(Labels[i]) > 63

\* C12: a community string of more than 127 bytes or a domain label of more
\* than 63 bytes is rejected with a configuration error before any probe is
\* built, so the community length byte and a label's length byte written in
\* a probe are the lengths themselves, within 127 and 63.
C12_LengthBounds ==
    /\ (cmd = "udpscanner" /\ OverLong)
       => /\ scanPc \in {"start", "returned"}
          /\ buf = <<>>
          /\ scanPc = "returned" => (ev.act = "UDPScanner" /\ ev.ret # "nil")
    /\ Wrote("snmp")
       => /\ buf[11] = Len(opts.CommunityString)
          /\ buf[11] <= 127
    /\ Wrote("dns")
       => /\ buf[17] = Len(Labels[1])
          /\ buf[17] <= 63

\* C13: every ChannelData frame the scanner writes is the channel number (2
\* bytes), the payload length (2 bytes), the payload and padding up to a
\* multiple of 4 bytes.
C13_FramePadded ==
    \A p \in {"snmp", "dns"} :
       Wrote(p)
       => LET n == buf[3] * 256 + buf[4] IN
          /\ SubSeq(buf, 1, 2) = channelNumber
          /\ \E id \in RandomUint32s : SubSeq(buf, 5, 4 + n) = Payload(p, opts, id)
          /\ Len(buf) >= 4 + n
          /\ Len(buf) < 4 + n + 4
          /\ Len(buf) % 4 = 0

\* The 19 bytes that end the SNMP request.
SnmpRest == <<2, 1, 0, 2, 1, 0, 48, 11, 48, 9, 6, 5, 43, 6, 1, 2, 1, 5, 0>>

\* v as a 16-bit big-endian field.
BigEndian16(v) == <<v \div 256, v % 256>>

\* C14: for a community string c of length n and a request id r the SNMP
\* payload is 30 <len(inner)> followed by inner = 02 01 01 04 <n> c a1 19 02
\* 04 <r, 4 bytes> and the 19 closing bytes, and the frame is the channel
\* number, len(snmp) as a 16-bit big-endian field, and the payload.
C14_SnmpBytes ==
    Wrote("snmp")
    => LET c == opts.CommunityString
           n == Len(c)
           r == SubSeq(buf, 16 + n, 19 + n)
           inner == <<2, 1, 1, 4, n>> \o c \o <<161, 25, 2, 4>> \o r \o SnmpRest
           payload == <<48, Len(inner)>> \o inner
       IN
       /\ Len(r) = 4
       /\ \A i \in 1..Len(r) : r[i] \in 0..255
       /\ buf = channelNumber \o BigEndian16(Len(payload)) \o payload

\* Each label preceded by its length, in order.
RECURSIVE LengthPrefixed(_)
LengthPrefixed(labels) ==
    IF labels = <<>> THEN <<>>
    ELSE <<Len(Head(labels))>> \o Head(labels) \o LengthPrefixed(Tail(labels))

\* C15: for a domain name l1.l2.....lk the DNS payload is a 2-byte
\* transaction id, 01 00, 00 01, 00 00, 00 00, 00 00, each label in order
\* preceded by its length byte, 00, 00 01, 00 01, and nothing after it (one
\* question); the frame is the channel number, the payload length and the
\* payload.
C15_DnsBytes ==
    Wrote("dns")
    => LET txid == SubSeq(buf, 5, 6)
           payload == txid \o <<1, 0, 0, 1, 0, 0, 0, 0, 0, 0>>
                      \o LengthPrefixed(Labels) \o <<0, 0, 1, 0, 1>>
       IN
       /\ Len(txid) = 2
       /\ \A i \in 1..Len(txid) : txid[i] \in 0..255
       /\ buf = channelNumber \o BigEndian16(Len(payload)) \o payload

\* C16: every Refresh request, the first one after a tick included, carries
\* a realm and a nonce the server supplied (never empty ones), and a
\* re-issued request those of the response it answers.
C16_RefreshCarriesNonce ==
    ev.act = "Refresh"
    => /\ ev.request.realm \in Realms
       /\ ev.request.nonce \in Nonces
       /\ ev.n = 2 => /\ ev.request.realm = ev.after.realm
                      /\ ev.request.nonce = ev.after.nonce

\* C17: Refresh re-issues its request only after a 438 response: after an
\* error-class response with another code there is no second request, the
\* refresh is over and the failure is logged.
C17_RetryOnlyOn438 ==
    /\ (ev.act = "Refresh" /\ ev.n = 2) => ev.after.code = "438"
    /\ (ev.act = "Refresh" /\ ev.n = 1 /\ ev.got.class = "error" /\ ev.got.code # "438")
       => /\ refreshPc[ev.sess] = "done"
          /\ ev.logged

\* C19: once the session's cancellation signal is tripped Refresh writes no
\* further request, be it the first one of a tick or the re-issued one.
C19_NoRequestAfterCancel ==
    ev.act = "Refresh" => ~cancelled[ev.sess]

\* C18: within one probe exactly one successful set-up precedes the
\* ChannelBind request; the probe frame is written only after a ChannelBind
\* exchange that succeeded with a response not of the error class, on the
\* probe's connection and starting with the channel number that was bound;
\* a response is read only after the frame was written; so after a failed
\* set-up or ChannelBind no frame is written and nothing is read.
C18_ProbeOrdering ==
    LET n == Len(calls)
        Ok(i, op) == i <= n /\ calls[i].op = op /\ calls[i].outcome = "ok"
    IN
    /\ n > 0 => calls[1].op = "setup"
    /\ \A i \in 1..n :
          /\ calls[i].op = "setup" => i = 1
          /\ calls[i].op = "bind" => (i = 2 /\ Ok(1, "setup"))
          /\ calls[i].op = "write"
             => /\ i = 3
                /\ Ok(1, "setup")
                /\ Ok(2, "bind")
                /\ calls[2].channel \in ChannelNumbers
                /\ calls[3].channel = calls[2].channel
          /\ calls[i].op = "read" => (i = 4 /\ Ok(2, "bind") /\ Ok(3, "write"))
    /\ buf # <<>> => (n >= 3 /\ calls[3].op = "write")

C18_Witness ==
    /\ scanPc = "dns"
    /\ probePc = "extract"
    /\ Len(calls) = 4
    /\ calls[2].op = "bind"
    /\ calls[2].channel = <<127, 255>>
    /\ calls[3].op = "write"
    /\ SubSeq(buf, 1, 2) = <<127, 255>>
    /\ calls[4].op = "read"

\* C20: every connection the set-up returned is closed exactly once, as the
\* last call of the probe, before the probe returns, whatever step ends the
\* probe; at most one scanner connection is open at any time, only inside a
\* probe, and none once UDPScanner has returned.
C20_NoConnectionLeak ==
    LET closes == {i \in 1..Len(calls) : calls[i].op = "close"} IN
    /\ nOpen \in {0, 1}
    /\ nOpen = 1 <=> remote = "open"
    /\ remote = "open"
       => /\ scanPc \in {"snmp", "dns"}
          /\ probePc \in {"bind", "write", "read", "extract"}
          /\ closes = {}
    /\ scanPc = "returned" => nOpen = 0
    /\ closes \subseteq {Len(calls)}
    /\ ev.act = "probe"
       => IF ev.step = "setup"
          THEN closes = {}
          ELSE /\ closes = {Len(calls)}
               /\ calls[1].outcome = "ok"
               /\ remote = "closed"

C20_Witness ==
    /\ ev.act = "probe"
    /\ ev.probe = "dns"
    /\ ev.step = "bind"
    /\ ev.outcome = "builderror"
    /\ calls[Len(calls)].op = "close"
    /\ remote = "closed"
    /\ nOpen = 0

====
